---- MODULE Spec2Model ----
(***************************************************************************)
(* libcork: paths, files with a cached classification, the directory       *)
(* walker and the recursive mkdir / remove of src/libcork/posix/files.c.   *)
(*                                                                         *)
(* A path is the sequence of its characters.  The filesystem is a finite   *)
(* tree of entries; the OS primitives the code calls (stat, opendir,       *)
(* readdir, closedir, mkdir, rmdir, unlink) are operators on that tree     *)
(* that resolve a path string the way POSIX does.                          *)
(***************************************************************************)
EXTENDS Integers, Sequences, FiniteSets, TLC

(***************************************************************************)
(* Bounds                                                                  *)
(***************************************************************************)
\* OS primitives that fail for an outside reason (EIO) during one call
MaxFaults == 1
\* longest string handed to a Path operation
MaxMore == 2
\* longest Path that is still appended to
MaxPathLen == 4
\* largest size a ring buffer is made with
MaxCap == 3

(***************************************************************************)
(* Path strings                                                            *)
(***************************************************************************)
SEP == "/"
Dot == <<".">>
DotDot == <<".", ".">>

\* the File paths a client passes in
PathStrings ==
    { <<"a">>, <<"a", "/">>, <<"a", "/", "b">> }

RECURSIVE LastSlash(_, _)
\* strrchr(given, '/'): index of the last separator among the first i
\* characters, 0 when there is none
LastSlash(s, i) ==
    IF i = 0 THEN 0
    ELSE IF s[i] = SEP THEN i
    ELSE LastSlash(s, i - 1)

cork_path_truncate(s, size) ==
    IF Len(s) > size THEN SubSeq(s, 1, size) ELSE s

\* an append that puts a separator after an empty path too
cork_path_append_always_sep(s, more) ==
    IF more = <<>> THEN s
    ELSE IF more[1] = SEP THEN more
    ELSE IF s = <<>> \/ s[Len(s)] # SEP THEN s \o <<SEP>> \o more
    ELSE s \o more

cork_path_append(s, more) ==
    IF more = <<>> THEN s
    ELSE IF more[1] = SEP THEN more
    ELSE IF Len(s) > 0 /\ s[Len(s)] # SEP THEN s \o <<SEP>> \o more
    ELSE s \o more

cork_path_set_basename(s) ==
    LET k == LastSlash(s, Len(s))
    IN  IF k # 0 THEN SubSeq(s, k + 1, Len(s)) ELSE s

\* a dirname that keeps the last separator
cork_path_set_dirname_keeps_sep(s) ==
    LET k == LastSlash(s, Len(s))
    IN  IF k = 0 THEN <<>> ELSE cork_path_truncate(s, k)

cork_path_set_dirname(s) ==
    LET k == LastSlash(s, Len(s))
    IN  IF k = 0 THEN <<>> ELSE cork_path_truncate(s, k - 1)

\* clone, then set_dirname on the clone
cork_path_dirname(s) == cork_path_set_dirname(s)

\* clone, then set_basename on the clone
cork_path_basename(s) == cork_path_set_basename(s)

\* clone, then append to the clone
cork_path_join(s, more) == cork_path_append(s, more)

\* cork_path_new(source): a NULL source gives the empty path
cork_path_new(null, source) == IF null THEN <<>> ELSE source

\* a set_absolute that gives up its contents before it asks for the
\* working directory
cork_path_set_absolute_clobbers(s, g) ==
    IF Len(s) > 0 /\ s[Len(s)] = SEP
    THEN [path |-> s, rc |-> 0, asked |-> FALSE, err |-> "none"]
    ELSE IF g.ok
    THEN [path |-> g.cwd \o <<SEP>> \o s, rc |-> 0, asked |-> TRUE,
          err |-> "none"]
    ELSE [path |-> <<>>, rc |-> -1, asked |-> TRUE, err |-> g.errno]

\* cork_path_set_absolute on contents s, where g is what getcwd(3) answers
\* when it is called
cork_path_set_absolute(s, g) ==
    IF Len(s) > 0 /\ s[Len(s)] = SEP
    THEN [path |-> s, rc |-> 0, asked |-> FALSE, err |-> "none"]
    ELSE IF g.ok
    THEN [path |-> g.cwd \o <<SEP>> \o s, rc |-> 0, asked |-> TRUE,
          err |-> "none"]
    ELSE [path |-> s, rc |-> -1, asked |-> TRUE, err |-> g.errno]

(***************************************************************************)
(* The filesystem                                                          *)
(***************************************************************************)
Root == <<>>
\* the entries the tree may hold, named by their components from the root;
\* the working directory is the root
Nodes ==
    { <<"a">>, <<"a", "a">>, <<"a", "b">>, <<"a", "b", "a">>,
      <<"b">>, <<"b", "a">> }

Kinds == {"none", "regular", "directory", "fifo", "symlink"}

\* every symbolic link of the tree has the contents "/b"
LinkTarget == <<"b">>

\* the kinds each entry takes in an initial tree
KindsAt(n) ==
    CASE n = <<"a">>           -> {"none", "regular", "directory"}
      [] n = <<"a", "a">>      -> {"none", "regular", "symlink"}
      [] n = <<"a", "b">>      -> {"none", "directory", "fifo"}
      [] n = <<"a", "b", "a">> -> {"none", "regular"}
      [] n = <<"b">>           -> {"none", "directory"}
      [] n = <<"b", "a">>      -> {"none", "regular"}

Parent(n) == SubSeq(n, 1, Len(n) - 1)

KindOf(t, n) ==
    IF n = Root THEN "directory"
    ELSE IF n \in Nodes THEN t[n]
    ELSE "none"

\* an entry exists only inside a directory
WellFormed(t) ==
    \A n \in Nodes : t[n] # "none" => KindOf(t, Parent(n)) = "directory"

Trees == { t \in [Nodes -> Kinds] :
             /\ \A n \in Nodes : t[n] \in KindsAt(n)
             /\ WellFormed(t) }

Children(t, n) ==
    { c \in Nodes : Len(c) = Len(n) + 1 /\ Parent(c) = n /\ t[c] # "none" }

\* the nodes of the subtree at n, n included
Subtree(n) ==
    { c \in Nodes : Len(c) >= Len(n) /\ SubSeq(c, 1, Len(n)) = n }

(***************************************************************************)
(* Path resolution                                                         *)
(***************************************************************************)
RECURSIVE Split(_, _, _)
\* the components of s from position i on; cur is the component being read
Split(s, i, cur) ==
    IF i > Len(s) THEN (IF cur = <<>> THEN <<>> ELSE <<cur>>)
    ELSE IF s[i] = SEP
         THEN (IF cur = <<>> THEN <<>> ELSE <<cur>>) \o Split(s, i + 1, <<>>)
         ELSE Split(s, i + 1, Append(cur, s[i]))

Components(s) == Split(s, 1, <<>>)

TrailingSlash(s) == Len(s) > 0 /\ s[Len(s)] = SEP

RECURSIVE Resolve(_, _, _, _)
\* Walks the components from directory cur.  st is "ok" with the entry's
\* node, or the errno of the failure; slot is the node a create call would
\* make when only the last component is missing, <<>> otherwise.
Resolve(t, comps, cur, follow) ==
    IF comps = <<>> THEN [st |-> "ok", node |-> cur, slot |-> Root]
    ELSE
      LET c    == Head(comps)
          rest == Tail(comps)
      IN
      IF c = Dot THEN Resolve(t, rest, cur, follow)
      ELSE IF c = DotDot
      THEN Resolve(t, rest, IF cur = Root THEN Root ELSE Parent(cur), follow)
      ELSE
        LET child == Append(cur, c[1])
            k     == IF Len(c) = 1 THEN KindOf(t, child) ELSE "none"
        IN
        IF k = "none"
        THEN [st |-> "ENOENT", node |-> Root,
              slot |-> IF rest = <<>> /\ Len(c) = 1 /\ child \in Nodes
                       THEN child ELSE Root]
        ELSE IF k = "symlink" /\ (rest # <<>> \/ follow)
        THEN IF KindOf(t, LinkTarget) = "none"
             THEN [st |-> "ENOENT", node |-> Root, slot |-> Root]
             ELSE IF rest = <<>>
             THEN [st |-> "ok", node |-> LinkTarget, slot |-> Root]
             ELSE IF KindOf(t, LinkTarget) = "directory"
             THEN Resolve(t, rest, LinkTarget, follow)
             ELSE [st |-> "ENOTDIR", node |-> Root, slot |-> Root]
        ELSE IF rest = <<>>
        THEN [st |-> "ok", node |-> child, slot |-> Root]
        ELSE IF k = "directory"
        THEN Resolve(t, rest, child, follow)
        ELSE [st |-> "ENOTDIR", node |-> Root, slot |-> Root]

\* the entry the string s names; a trailing separator asks for a directory
Lookup(t, s, follow) ==
    IF s = <<>> THEN [st |-> "ENOENT", node |-> Root, slot |-> Root]
    ELSE
      LET r == Resolve(t, Components(s), Root, follow \/ TrailingSlash(s))
      IN  IF r.st = "ok" /\ TrailingSlash(s) /\ KindOf(t, r.node) # "directory"
          THEN [st |-> "ENOTDIR", node |-> Root, slot |-> Root]
          ELSE r

(***************************************************************************)
(* OS primitives                                                           *)
(***************************************************************************)
\* stat(2) follows symbolic links
sys_stat(t, s) ==
    LET r == Lookup(t, s, TRUE)
    IN  IF r.st = "ok"
        THEN [rc |-> 0, errno |-> "0", kind |-> KindOf(t, r.node)]
        ELSE [rc |-> -1, errno |-> r.st, kind |-> "none"]

sys_opendir(t, s) ==
    LET r == Lookup(t, s, TRUE)
    IN  IF r.st # "ok" THEN [rc |-> -1, errno |-> r.st, node |-> Root]
        ELSE IF KindOf(t, r.node) # "directory"
        THEN [rc |-> -1, errno |-> "ENOTDIR", node |-> Root]
        ELSE [rc |-> 0, errno |-> "0", node |-> r.node]

\* mkdir(2) does not follow a link in the last component
sys_mkdir(t, s) ==
    LET r == IF s = <<>> THEN [st |-> "ENOENT", node |-> Root, slot |-> Root]
             ELSE Resolve(t, Components(s), Root, FALSE)
    IN  IF r.st = "ok" THEN [rc |-> -1, errno |-> "EEXIST", fs |-> t, node |-> Root]
        ELSE IF r.st = "ENOENT" /\ r.slot # Root
        THEN [rc |-> 0, errno |-> "0",
              fs |-> [t EXCEPT ![r.slot] = "directory"], node |-> r.slot]
        ELSE [rc |-> -1, errno |-> r.st, fs |-> t, node |-> Root]

sys_rmdir(t, s) ==
    LET r == IF s = <<>> THEN [st |-> "ENOENT", node |-> Root, slot |-> Root]
             ELSE Resolve(t, Components(s), Root, FALSE)
    IN  IF r.st # "ok" THEN [rc |-> -1, errno |-> r.st, fs |-> t, node |-> Root]
        ELSE IF KindOf(t, r.node) # "directory"
        THEN [rc |-> -1, errno |-> "ENOTDIR", fs |-> t, node |-> Root]
        ELSE IF r.node = Root
        THEN [rc |-> -1, errno |-> "EBUSY", fs |-> t, node |-> Root]
        ELSE IF Children(t, r.node) # {}
        THEN [rc |-> -1, errno |-> "ENOTEMPTY", fs |-> t, node |-> Root]
        ELSE [rc |-> 0, errno |-> "0",
              fs |-> [t EXCEPT ![r.node] = "none"], node |-> r.node]

sys_unlink(t, s) ==
    LET r == IF s = <<>> THEN [st |-> "ENOENT", node |-> Root, slot |-> Root]
             ELSE Resolve(t, Components(s), Root, FALSE)
    IN  IF r.st # "ok" THEN [rc |-> -1, errno |-> r.st, fs |-> t, node |-> Root]
        ELSE IF KindOf(t, r.node) = "directory"
        THEN [rc |-> -1, errno |-> "EISDIR", fs |-> t, node |-> Root]
        ELSE IF TrailingSlash(s)
        THEN [rc |-> -1, errno |-> "ENOTDIR", fs |-> t, node |-> Root]
        ELSE [rc |-> 0, errno |-> "0",
              fs |-> [t EXCEPT ![r.node] = "none"], node |-> r.node]

\* the order in which readdir(3) returns the entries of a directory
RECURSIVE Perms(_)
Perms(S) ==
    IF S = {} THEN {<<>>}
    ELSE UNION { { <<x>> \o p : p \in Perms(S \ {x}) } : x \in S }

\* the names of the entries of the directory at node n
Entries(t, n) == { <<c[Len(c)]>> : c \in Children(t, n) }

\* the listings readdir(3) may give of the directory at node n: its entries
\* in any order, with "." and ".." together at any place among them
Listings(t, n) ==
    { SubSeq(p, 1, k) \o <<Dot, DotDot>> \o SubSeq(p, k + 1, Len(p)) :
        p \in Perms(Entries(t, n)), k \in 0..Cardinality(Entries(t, n)) }

(***************************************************************************)
(* Files                                                                   *)
(***************************************************************************)
PERMISSIVE == "PERMISSIVE"
RECURSIVE_FLAG == "RECURSIVE"
FlagSets == SUBSET {PERMISSIVE, RECURSIVE_FLAG}

\* struct cork_file: the owned path, the cached type, has_stat
cork_file_init(p) == [path |-> p, has_stat |-> FALSE, type |-> "UNSET"]
NoFile == [path |-> <<>>, has_stat |-> FALSE, type |-> "NONE"]

\* a reset that leaves the cached classification in force
cork_file_reset_keeps(f) == f

\* cork_file_reset(file): has_stat = false
cork_file_reset(f) == [f EXCEPT !.has_stat = FALSE]

\* the S_ISREG / S_ISDIR / S_ISLNK ladder over st_mode
FileType(kind) ==
    CASE kind = "regular"   -> "REGULAR"
      [] kind = "directory" -> "DIRECTORY"
      [] kind = "symlink"   -> "SYMLINK"
      [] OTHER              -> "UNKNOWN"

\* a classification that takes only ENOENT for a missing entry
cork_file_stat_enoent_only(f, q) ==
    IF f.has_stat THEN [file |-> f, rc |-> 0, queried |-> FALSE]
    ELSE IF q.rc = -1
    THEN IF q.errno = "ENOENT"
         THEN [file |-> [f EXCEPT !.type = "MISSING", !.has_stat = TRUE],
               rc |-> 0, queried |-> TRUE]
         ELSE [file |-> f, rc |-> -1, queried |-> TRUE]
    ELSE [file |-> [f EXCEPT !.type = FileType(q.kind), !.has_stat = TRUE],
          rc |-> 0, queried |-> TRUE]

\* a classification that asks the OS again whatever the cache holds
cork_file_stat_uncached(f, q) ==
    IF q.rc = -1
    THEN IF q.errno = "ENOENT" \/ q.errno = "ENOTDIR"
         THEN [file |-> [f EXCEPT !.type = "MISSING", !.has_stat = TRUE],
               rc |-> 0, queried |-> TRUE]
         ELSE [file |-> f, rc |-> -1, queried |-> TRUE]
    ELSE [file |-> [f EXCEPT !.type = FileType(q.kind), !.has_stat = TRUE],
          rc |-> 0, queried |-> TRUE]

\* cork_file_stat on File f, where q is what stat(2) answers for f's path
cork_file_stat(f, q) ==
    IF f.has_stat THEN [file |-> f, rc |-> 0, queried |-> FALSE]
    ELSE IF q.rc = -1
    THEN IF q.errno = "ENOENT" \/ q.errno = "ENOTDIR"
         THEN [file |-> [f EXCEPT !.type = "MISSING", !.has_stat = TRUE],
               rc |-> 0, queried |-> TRUE]
         ELSE [file |-> f, rc |-> -1, queried |-> TRUE]
    ELSE [file |-> [f EXCEPT !.type = FileType(q.kind), !.has_stat = TRUE],
          rc |-> 0, queried |-> TRUE]

(***************************************************************************)
(* State                                                                   *)
(***************************************************************************)
VARIABLES
    fs,      \* the filesystem tree
    file,    \* the client's File
    stack,   \* the frames of the functions in progress, innermost last
    errno,   \* the C errno
    err,     \* libcork's current error: "none" or the code it records
    ret,     \* the value the function that returned last gave its caller
    phase,   \* "idle", "run" (a call is in progress) or "done" (it returned)
    faults,  \* the OS primitives that failed with EIO in this call
    call,    \* the call in progress: operation, flags, the state it began in
    prev,    \* the call before it: operation, result, path of its File
    h        \* what this call did so far (see H0)

\* a Path on its own and a ring buffer, used apart from the File calls
VARIABLES
    path,    \* the characters of a cork_path
    pres,    \* the Path operation that ran last: its inputs and results
    ring,    \* a cork_ring_buffer
    fifo,    \* the elements added to the ring and not yet popped, oldest first
    rres     \* the ring operation that ran last and what it returned

filevars == <<fs, file, stack, errno, err, ret, phase, faults, call, prev, h>>
pathvars == <<path, pres>>
ringvars == <<ring, fifo, rres>>
vars == <<filevars, pathvars, ringvars>>

NoFail == [set |-> FALSE, fs |-> <<>>, nv |-> 0, nm |-> 0]

\* muts: the mkdir/rmdir/unlink calls issued, in order, with their result;
\* visits: the visitor invocations of a client's Walk, in order;
\* listed: the entries readdir returned to a client's Walk, in order;
\* handles: per directory handle opened, how often it was closed and how
\*          often the child File made for it was released;
\* fail: set at the first failing step, with the state at that moment;
\* oserrs: the errno of every OS primitive that failed (not-found answers
\*         of stat excepted);  rderr: a readdir failed;
\* nstat: the stat(2) queries issued;
\* out: what cork_file_type or cork_file_exists stored for its caller
H0 == [muts |-> <<>>, visits |-> <<>>, listed |-> <<>>, handles |-> <<>>,
       fail |-> NoFail, oserrs |-> {}, rderr |-> FALSE, nstat |-> 0,
       out |-> "none"]

NoCall == [op |-> "none", flags |-> {}, fs0 |-> <<>>, file0 |-> NoFile,
           target |-> Root]
NoPrev == [op |-> "none", rc |-> 0, path |-> <<>>]

\* the node a path of plain names denotes
NameNode(s) == [i \in 1..Len(Components(s)) |-> Components(s)[i][1]]

NewCall(op, flags) ==
    [op |-> op, flags |-> flags, fs0 |-> fs, file0 |-> file,
     target |-> NameNode(file.path)]

Frame(fn, pc, flags, fref, iter) ==
    [fn |-> fn, pc |-> pc, flags |-> flags, fref |-> fref, iter |-> iter,
     loc |-> NoFile, dir |-> 0, node |-> Root, rest |-> <<>>,
     entry |-> <<>>, size |-> 0, rd |-> "none", q |-> 0]

\* no Path operation has run; no ring buffer is in use
\* op: the operation; old: the contents before it; arg, null: the string
\* it was given, or NULL; out: the Path it returned (the clone operations);
\* rc, err: its result and the error it set; cwd, asked: what getcwd
\* answered and whether it was called; dir, base: the results of
\* cork_path_dirname and cork_path_basename on the present contents
NoSplit == [set |-> FALSE, path |-> <<>>]
NoPres == [op |-> "none", old |-> <<>>, arg |-> <<>>, null |-> FALSE,
           out |-> <<>>, rc |-> 0, err |-> "none", cwd |-> <<>>,
           asked |-> FALSE, dir |-> NoSplit, base |-> NoSplit]
NoRing == [elements |-> <<>>, allocated_size |-> 0, size |-> 0,
           read_index |-> 0, write_index |-> 0]
\* op: the ring operation; arg: the element given to add; rc: the int it
\* returned; out: the pointer it returned; ring0, fifo0: the buffer and the
\* queue before it
NoRres == [op |-> "none", arg |-> "NULL", rc |-> 0, out |-> "NULL",
           ring0 |-> NoRing, fifo0 |-> <<>>]
PathIdle == path = <<>> /\ pres = NoPres
RingIdle == ring = NoRing /\ fifo = <<>> /\ rres = NoRres

Top == stack[Len(stack)]
Pop(stk) == SubSeq(stk, 1, Len(stk) - 1)
SetTop(stk, f) == [stk EXCEPT ![Len(stk)] = f]

RECURSIVE FileAt(_, _)
\* the File the frame i was called on: the client's, the local File of the
\* calling frame, or the calling frame's own argument
FileAt(stk, i) ==
    IF stk[i].fref = "user" THEN file
    ELSE IF stk[i].fref = "local" THEN stk[i - 1].loc
    ELSE FileAt(stk, i - 1)

TopFile == FileAt(stack, Len(stack))

\* the stack and the client's File after the top frame's File became f
\* and the top frame became fr
PutStack(f, fr) ==
    IF Top.fref = "local"
    THEN [stack EXCEPT ![Len(stack)] = fr, ![Len(stack) - 1].loc = f]
    ELSE SetTop(stack, fr)
PutFile(f) == IF Top.fref = "user" THEN f ELSE file

NoteFail(hh, t) ==
    IF hh.fail.set THEN hh
    ELSE [hh EXCEPT !.fail = [set |-> TRUE, fs |-> t,
                              nv |-> Len(hh.visits), nm |-> Len(hh.muts)]]
NoteOsErr(hh, e) == [hh EXCEPT !.oserrs = @ \cup {e}]

\* an OS primitive answers as the tree says, or fails with EIO
Fault == [rc |-> -1, errno |-> "EIO", kind |-> "none", fs |-> <<>>,
          node |-> Root, fault |-> TRUE]
Answers(nat, nf) ==
    {[rc |-> nat.rc, errno |-> nat.errno,
      kind |-> IF "kind" \in DOMAIN nat THEN nat.kind ELSE "none",
      fs   |-> IF "fs" \in DOMAIN nat THEN nat.fs ELSE <<>>,
      node |-> IF "node" \in DOMAIN nat THEN nat.node ELSE Root,
      fault |-> FALSE]}
    \cup (IF nf < MaxFaults THEN {Fault} ELSE {})

\* cork_file_stat on f in the current state: the File, return code, errno,
\* error, fault count and history after it
StatStep(f, t, e, er, nf, hh) ==
    { LET r  == cork_file_stat(f, q)
          bad == r.queried /\ q.rc = -1
          h1 == IF r.queried THEN [hh EXCEPT !.nstat = @ + 1] ELSE hh
          h2 == IF bad /\ q.errno \notin {"ENOENT", "ENOTDIR"}
                THEN NoteOsErr(h1, q.errno) ELSE h1
          h3 == IF r.rc = -1 THEN NoteFail(h2, t) ELSE h2
      IN  [file |-> r.file, rc |-> r.rc,
           errno |-> IF bad THEN q.errno ELSE e,
           err |-> IF r.rc = -1 THEN q.errno ELSE er,
           faults |-> IF r.queried /\ q.fault THEN nf + 1 ELSE nf,
           h |-> h3]
      : q \in Answers(sys_stat(t, f.path), nf) }

Init ==
    /\ fs \in Trees
    /\ file \in { cork_file_init(p) : p \in PathStrings }
    /\ stack = <<>>
    /\ errno = "0"
    /\ err = "none"
    /\ ret = 0
    /\ phase = "idle"
    /\ faults = 0
    /\ call = NoCall
    /\ prev = NoPrev
    /\ h = H0
    /\ PathIdle
    /\ RingIdle

(***************************************************************************)
(* The client                                                              *)
(***************************************************************************)
\* cork_file_new(path): a new File replaces the client's
cork_file_new(p) ==
    /\ phase = "idle"
    /\ file' = cork_file_init(p)
    /\ prev' = IF prev.op = "type" THEN NoPrev ELSE prev
    /\ UNCHANGED <<fs, stack, errno, err, ret, phase, faults, call, h>>
    /\ UNCHANGED <<pathvars, ringvars>>

\* what cork_file_exists stores in *exists
ExistsOut(type) == IF type # "MISSING" THEN "true" ELSE "false"

\* rii_check(cork_file_stat(file)), then the result is stored for the caller
Query(op) ==
    /\ phase = "idle"
    /\ \E s \in StatStep(file, fs, errno, err, 0, H0) :
         /\ file' = s.file
         /\ ret' = s.rc
         /\ errno' = s.errno
         /\ err' = s.err
         /\ faults' = s.faults
         /\ h' = IF s.rc = -1 THEN s.h
                 ELSE [s.h EXCEPT !.out = IF op = "type" THEN s.file.type
                                         ELSE ExistsOut(s.file.type)]
    /\ call' = NewCall(op, {})
    /\ phase' = "done"
    /\ UNCHANGED <<fs, stack, prev>>
    /\ UNCHANGED <<pathvars, ringvars>>

\* cork_file_type(file, &type)
cork_file_type == Query("type")

\* cork_file_exists(file, &exists)
cork_file_exists == Query("exists")

Begin(op, flags, fr) ==
    /\ phase = "idle"
    /\ phase' = "run"
    /\ stack' = <<fr>>
    /\ call' = NewCall(op, flags)
    /\ faults' = 0
    /\ h' = H0
    /\ UNCHANGED <<fs, file, errno, err, ret, prev>>
    /\ UNCHANGED <<pathvars, ringvars>>

\* cork_file_mkdir(file, mode, flags)
cork_file_mkdir(flags) ==
    Begin("mkdir", flags, Frame("mkdir_one", "stat", flags, "user", "none"))

\* cork_file_remove(file, flags), called by the client
cork_file_remove(flags) ==
    Begin("remove", flags, Frame("remove", "stat", flags, "user", "none"))

\* cork_file_iterate_directory(file, visitor, data), called by the client
cork_file_iterate_directory ==
    Begin("walk", {}, Frame("iterate", "open", {}, "user", "user"))

\* what the next call is told of the one before: a successful mkdir or
\* remove and the path it was given, or a failed classification of the
\* same File
Remember(c, rc) ==
    IF (c.op \in {"mkdir", "remove"} /\ rc = 0) \/ (c.op = "type" /\ rc = -1)
    THEN [op |-> c.op, rc |-> rc, path |-> c.file0.path]
    ELSE NoPrev

\* the call returned; the client looks at the result, clears the error
\* and goes on
client_continue ==
    /\ phase = "done"
    /\ phase' = "idle"
    /\ prev' = Remember(call, ret)
    /\ call' = NoCall
    /\ h' = H0
    /\ err' = "none"
    /\ ret' = 0
    /\ faults' = 0
    /\ UNCHANGED <<fs, file, stack, errno>>
    /\ UNCHANGED <<pathvars, ringvars>>

\* the top frame returns v to its caller
Return(stk, v) ==
    /\ stack' = Pop(stk)
    /\ ret' = v
    /\ phase' = IF Len(stk) = 1 THEN "done" ELSE "run"

Running(fn, pc) ==
    /\ phase = "run"
    /\ Top.fn = fn
    /\ Top.pc = pc

\* an OS primitive other than stat is called on path p: what it answers and
\* the errno, tree, fault count and history after it
SysStep(name, nat, p, t, e, nf, hh) ==
    { LET h1 == IF name \in {"mkdir", "rmdir", "unlink"}
                THEN [hh EXCEPT !.muts = Append(@, [op |-> name, path |-> p,
                                                    ok |-> q.rc = 0,
                                                    node |-> q.node])]
                ELSE hh
          h2 == IF q.rc = -1 THEN NoteFail(NoteOsErr(h1, q.errno), t) ELSE h1
      IN  [rc |-> q.rc,
           errno |-> IF q.rc = -1 THEN q.errno ELSE e,
           fs |-> IF q.rc = 0 /\ q.fs # <<>> THEN q.fs ELSE t,
           node |-> q.node,
           faults |-> IF q.fault THEN nf + 1 ELSE nf,
           h |-> h2]
      : q \in Answers(nat, nf) }

(***************************************************************************)
(* cork_file_mkdir_one                                                     *)
(***************************************************************************)
\* what mkdir_one does with the type it found: fail with EEXIST, return 0,
\* or go on to create the directory
mkdir_one_check(type, flags) ==
    IF type = "DIRECTORY"
    THEN IF PERMISSIVE \notin flags THEN "EEXIST" ELSE "return0"
    ELSE IF type # "MISSING" THEN "EEXIST"
    ELSE "create"

\* the flags of the recursive call for the parent
mkdir_one_parent_flags(flags) == flags \cup {PERMISSIVE}

mkdir_one_stat ==
    /\ Running("mkdir_one", "stat")
    /\ \E s \in StatStep(TopFile, fs, errno, err, faults, h) :
         LET f == s.file
             d == mkdir_one_check(f.type, Top.flags)
         IN
         /\ errno' = s.errno
         /\ faults' = s.faults
         /\ file' = PutFile(f)
         /\ \/ /\ s.rc = -1
               /\ err' = s.err
               /\ h' = s.h
               /\ Return(PutStack(f, Top), -1)
            \/ /\ s.rc = 0 /\ d = "EEXIST"
               /\ err' = "EEXIST"
               /\ h' = NoteFail(s.h, fs)
               /\ Return(PutStack(f, Top), -1)
            \/ /\ s.rc = 0 /\ d = "return0"
               /\ err' = s.err
               /\ h' = s.h
               /\ Return(PutStack(f, Top), 0)
            \/ /\ s.rc = 0 /\ d = "create"
               /\ err' = s.err
               /\ h' = s.h
               /\ stack' = PutStack(f, [Top EXCEPT !.pc = "parent"])
               /\ UNCHANGED <<ret, phase>>
    /\ UNCHANGED <<fs, call, prev>>
    /\ UNCHANGED <<pathvars, ringvars>>

mkdir_one_parent ==
    /\ Running("mkdir_one", "parent")
    /\ LET parent == cork_path_dirname(TopFile.path)
       IN  IF RECURSIVE_FLAG \in Top.flags /\ Len(parent) # 0
           THEN stack' = Append(
                    SetTop(stack, [Top EXCEPT !.pc = "ret",
                                              !.loc = cork_file_init(parent)]),
                    Frame("mkdir_one", "stat",
                          mkdir_one_parent_flags(Top.flags), "local", "none"))
           ELSE stack' = SetTop(stack, [Top EXCEPT !.pc = "mkdir"])
    /\ UNCHANGED <<fs, file, errno, err, ret, phase, faults, call, prev, h>>
    /\ UNCHANGED <<pathvars, ringvars>>

\* the recursive call returned: cork_file_done(&parent_file); rii_check(rc)
mkdir_one_ret ==
    /\ Running("mkdir_one", "ret")
    /\ IF ret # 0
       THEN Return(SetTop(stack, [Top EXCEPT !.loc = NoFile]), -1)
       ELSE /\ stack' = SetTop(stack, [Top EXCEPT !.pc = "mkdir", !.loc = NoFile])
            /\ UNCHANGED <<ret, phase>>
    /\ UNCHANGED <<fs, file, errno, err, faults, call, prev, h>>
    /\ UNCHANGED <<pathvars, ringvars>>

\* rii_check_posix(mkdir(path, mode))
mkdir_one_mkdir ==
    /\ Running("mkdir_one", "mkdir")
    /\ \E s \in SysStep("mkdir", sys_mkdir(fs, TopFile.path), TopFile.path,
                        fs, errno, faults, h) :
         /\ fs' = s.fs
         /\ errno' = s.errno
         /\ faults' = s.faults
         /\ h' = s.h
         /\ err' = IF s.rc = -1 THEN s.errno ELSE err
         /\ Return(stack, IF s.rc = -1 THEN -1 ELSE 0)
    /\ UNCHANGED <<file, call, prev>>
    /\ UNCHANGED <<pathvars, ringvars>>

(***************************************************************************)
(* cork_file_remove                                                        *)
(***************************************************************************)
\* a remove that takes a missing entry for removed whatever the flags
remove_check_lenient(type, flags) ==
    IF type = "MISSING" THEN "return0"
    ELSE IF type = "DIRECTORY"
    THEN IF RECURSIVE_FLAG \in flags THEN "walk" ELSE "rmdir"
    ELSE "unlink"

\* what remove does with the type it found
remove_check(type, flags) ==
    IF type = "MISSING"
    THEN IF PERMISSIVE \in flags THEN "return0" ELSE "ENOENT"
    ELSE IF type = "DIRECTORY"
    THEN IF RECURSIVE_FLAG \in flags THEN "walk" ELSE "rmdir"
    ELSE "unlink"

remove_stat ==
    /\ Running("remove", "stat")
    /\ \E s \in StatStep(TopFile, fs, errno, err, faults, h) :
         LET f == s.file
             d == remove_check(f.type, Top.flags)
         IN
         /\ errno' = s.errno
         /\ faults' = s.faults
         /\ file' = PutFile(f)
         /\ \/ /\ s.rc = -1
               /\ err' = s.err
               /\ h' = s.h
               /\ Return(PutStack(f, Top), -1)
            \/ /\ s.rc = 0 /\ d = "ENOENT"
               /\ err' = "ENOENT"
               /\ h' = NoteFail(s.h, fs)
               /\ Return(PutStack(f, Top), -1)
            \/ /\ s.rc = 0 /\ d = "return0"
               /\ err' = s.err
               /\ h' = s.h
               /\ Return(PutStack(f, Top), 0)
            \/ /\ s.rc = 0 /\ d = "walk"
               /\ err' = s.err
               /\ h' = s.h
               /\ stack' = Append(PutStack(f, [Top EXCEPT !.pc = "walked"]),
                                  Frame("iterate", "open", Top.flags,
                                        "arg", "remove"))
               /\ UNCHANGED <<ret, phase>>
            \/ /\ s.rc = 0 /\ d \in {"rmdir", "unlink"}
               /\ err' = s.err
               /\ h' = s.h
               /\ stack' = PutStack(f, [Top EXCEPT !.pc = d])
               /\ UNCHANGED <<ret, phase>>
    /\ UNCHANGED <<fs, call, prev>>
    /\ UNCHANGED <<pathvars, ringvars>>

\* rii_check(cork_file_iterate_directory(...))
remove_walked ==
    /\ Running("remove", "walked")
    /\ IF ret # 0
       THEN Return(stack, -1)
       ELSE /\ stack' = SetTop(stack, [Top EXCEPT !.pc = "rmdir"])
            /\ UNCHANGED <<ret, phase>>
    /\ UNCHANGED <<fs, file, errno, err, faults, call, prev, h>>
    /\ UNCHANGED <<pathvars, ringvars>>

\* rii_check_posix(rmdir(path))
remove_rmdir ==
    /\ Running("remove", "rmdir")
    /\ \E s \in SysStep("rmdir", sys_rmdir(fs, TopFile.path), TopFile.path,
                        fs, errno, faults, h) :
         /\ fs' = s.fs
         /\ errno' = s.errno
         /\ faults' = s.faults
         /\ h' = s.h
         /\ err' = IF s.rc = -1 THEN s.errno ELSE err
         /\ Return(stack, IF s.rc = -1 THEN -1 ELSE 0)
    /\ UNCHANGED <<file, call, prev>>
    /\ UNCHANGED <<pathvars, ringvars>>

\* rii_check(unlink(path)): a failure is returned, no error is set
remove_unlink ==
    /\ Running("remove", "unlink")
    /\ \E s \in SysStep("unlink", sys_unlink(fs, TopFile.path), TopFile.path,
                        fs, errno, faults, h) :
         /\ fs' = s.fs
         /\ errno' = s.errno
         /\ faults' = s.faults
         /\ h' = s.h
         /\ Return(stack, IF s.rc # 0 THEN -1 ELSE 0)
    /\ UNCHANGED <<file, err, call, prev>>
    /\ UNCHANGED <<pathvars, ringvars>>

(***************************************************************************)
(* cork_file_iterate_directory                                             *)
(***************************************************************************)
\* the "." and ".." entries are skipped
iterate_skips(name) == name = Dot \/ name = DotDot

\* a loop that leaves errno as the pass found it
iterate_errno_kept(e) == e

\* errno = 0 before the loop and at the end of each pass, whatever it was
iterate_errno_reset(e) == "0"

\* an exit that closes the directory and keeps the child File
Released_dir_only(hh, fr) ==
    [hh EXCEPT !.handles[fr.dir].closed = @ + 1]

\* closedir(dir) and cork_file_done(&child_file) of the top frame
Released(hh, fr) ==
    [hh EXCEPT !.handles[fr.dir].freed = @ + 1,
               !.handles[fr.dir].closed = @ + 1]

\* rip_check_posix(dir = opendir(path)); clone the path; errno = 0
iterate_open ==
    /\ Running("iterate", "open")
    /\ \E s \in SysStep("opendir", sys_opendir(fs, TopFile.path), TopFile.path,
                        fs, errno, faults, h) :
         /\ faults' = s.faults
         /\ \/ /\ s.rc = -1
               /\ errno' = s.errno
               /\ err' = s.errno
               /\ h' = s.h
               /\ Return(stack, -1)
            \/ /\ s.rc = 0
               /\ errno' = iterate_errno_reset(errno)
               /\ err' = err
               /\ h' = [s.h EXCEPT !.handles =
                            Append(@, [closed |-> 0, freed |-> 0])]
               /\ \E order \in Listings(fs, s.node) :
                    stack' = SetTop(stack,
                        [Top EXCEPT !.pc = "read",
                                    !.loc = cork_file_init(TopFile.path),
                                    !.dir = Len(h.handles) + 1,
                                    !.node = s.node,
                                    !.rest = order,
                                    !.size = Len(TopFile.path)])
               /\ UNCHANGED <<ret, phase>>
    /\ UNCHANGED <<fs, file, call, prev>>
    /\ UNCHANGED <<pathvars, ringvars>>

\* entry = readdir(dir), the skip of "." and "..", cork_path_append
iterate_read ==
    /\ Running("iterate", "read")
    /\ \/ /\ faults < MaxFaults
          /\ faults' = faults + 1
          /\ errno' = "EIO"
          /\ h' = [NoteFail(NoteOsErr(h, "EIO"), fs) EXCEPT !.rderr = TRUE]
          /\ stack' = SetTop(stack, [Top EXCEPT !.pc = "check", !.rd = "error"])
       \/ /\ Top.rest = <<>>
          /\ stack' = SetTop(stack, [Top EXCEPT !.pc = "check", !.rd = "end"])
          /\ UNCHANGED <<errno, faults, h>>
       \/ /\ Top.rest # <<>>
          /\ LET name == Head(Top.rest)
             IN  /\ h' = IF Top.iter = "user"
                         THEN [h EXCEPT !.listed = Append(@, name)] ELSE h
                 /\ stack' = SetTop(stack,
                      IF iterate_skips(name)
                      THEN [Top EXCEPT !.rest = Tail(@)]
                      ELSE [Top EXCEPT !.rest = Tail(@),
                                       !.entry = name,
                                       !.q = h.nstat,
                                       !.loc.path = cork_path_append(@, name),
                                       !.pc = "stat"])
          /\ UNCHANGED <<errno, faults>>
    /\ UNCHANGED <<fs, file, err, ret, phase, call, prev>>
    /\ UNCHANGED <<pathvars, ringvars>>

\* ei_check(cork_file_stat(&child_file))
iterate_stat ==
    /\ Running("iterate", "stat")
    /\ \E s \in StatStep(Top.loc, fs, errno, err, faults, h) :
         /\ errno' = s.errno
         /\ err' = s.err
         /\ faults' = s.faults
         /\ h' = s.h
         /\ stack' = SetTop(stack,
              [Top EXCEPT !.loc = s.file,
                          !.pc = IF s.rc = -1 THEN "error" ELSE "visit"])
    /\ UNCHANGED <<fs, file, ret, phase, call, prev>>
    /\ UNCHANGED <<pathvars, ringvars>>

\* iterator(&child_file, entry->d_name, user_data) with a client's visitor:
\* it returns 0 or fails with an error of its own, and may change errno
iterate_visit ==
    /\ Running("iterate", "visit")
    /\ Top.iter = "user"
    /\ \E v \in {0, -1}, e \in {errno, "EINTR"} :
         /\ ret' = v
         /\ errno' = e
         /\ err' = IF v = -1 THEN "EVISITOR" ELSE err
         /\ LET h1 == [h EXCEPT !.visits = Append(@,
                          [name |-> Top.entry, path |-> Top.loc.path,
                           type |-> Top.loc.type,
                           kind |-> KindOf(fs, Append(Top.node, Top.entry[1]))])]
            IN  h' = IF v = -1 THEN NoteFail(h1, fs) ELSE h1
    /\ stack' = SetTop(stack, [Top EXCEPT !.pc = "visited"])
    /\ UNCHANGED <<fs, file, phase, faults, call, prev>>
    /\ UNCHANGED <<pathvars, ringvars>>

\* iterator(...) with cork_file_remove_iterator: cork_file_remove(file, *flags)
cork_file_remove_iterator ==
    /\ Running("iterate", "visit")
    /\ Top.iter = "remove"
    /\ stack' = Append(SetTop(stack, [Top EXCEPT !.pc = "visited"]),
                       Frame("remove", "stat", Top.flags, "local", "none"))
    /\ UNCHANGED <<fs, file, errno, err, ret, phase, faults, call, prev, h>>
    /\ UNCHANGED <<pathvars, ringvars>>

\* a loop that goes on to the next entry whatever the iterator returned
iterate_visited_on ==
    /\ Running("iterate", "visited")
    /\ stack' = SetTop(stack,
         [Top EXCEPT !.pc = "read",
                     !.loc = cork_file_reset(
                         [@ EXCEPT !.path = cork_path_truncate(@, Top.size)])])
    /\ errno' = "0"
    /\ UNCHANGED <<fs, file, err, ret, phase, faults, call, prev, h>>
    /\ UNCHANGED <<pathvars, ringvars>>

\* ei_check of the iterator's result; truncate the child path, reset the
\* child File, errno = 0
iterate_visited ==
    /\ Running("iterate", "visited")
    /\ IF ret # 0
       THEN /\ stack' = SetTop(stack, [Top EXCEPT !.pc = "error"])
            /\ errno' = errno
       ELSE /\ stack' = SetTop(stack,
                 [Top EXCEPT !.pc = "read",
                             !.loc = cork_file_reset(
                                 [@ EXCEPT !.path =
                                      cork_path_truncate(@, Top.size)])])
            /\ errno' = iterate_errno_reset(errno)
    /\ UNCHANGED <<fs, file, err, ret, phase, faults, call, prev, h>>
    /\ UNCHANGED <<pathvars, ringvars>>

\* after the loop: errno != 0 is a read error; else release and close
iterate_check ==
    /\ Running("iterate", "check")
    /\ IF errno # "0"
       THEN /\ err' = errno
            /\ h' = NoteFail(h, fs)
            /\ stack' = SetTop(stack, [Top EXCEPT !.pc = "error"])
            /\ UNCHANGED <<errno, ret, phase, faults>>
       ELSE \E s \in SysStep("closedir", [rc |-> 0, errno |-> "0"], <<>>,
                             fs, errno, faults, Released(h, Top)) :
              /\ errno' = s.errno
              /\ faults' = s.faults
              /\ h' = s.h
              /\ err' = IF s.rc = -1 THEN s.errno ELSE err
              /\ Return(stack, IF s.rc = -1 THEN -1 ELSE 0)
    /\ UNCHANGED <<fs, file, call, prev>>
    /\ UNCHANGED <<pathvars, ringvars>>

\* error: cork_file_done(&child_file); rii_check_posix(closedir(dir)); return -1
iterate_error ==
    /\ Running("iterate", "error")
    /\ \E s \in SysStep("closedir", [rc |-> 0, errno |-> "0"], <<>>,
                        fs, errno, faults, Released(h, Top)) :
         /\ errno' = s.errno
         /\ faults' = s.faults
         /\ h' = s.h
         /\ err' = IF s.rc = -1 THEN s.errno ELSE err
         /\ Return(stack, -1)
    /\ UNCHANGED <<fs, file, call, prev>>
    /\ UNCHANGED <<pathvars, ringvars>>

(***************************************************************************)
(* Specification                                                           *)
(***************************************************************************)
Next ==
    \/ \E p \in PathStrings : cork_file_new(p)
    \/ cork_file_type
    \/ cork_file_exists
    \/ \E flags \in FlagSets : cork_file_mkdir(flags)
    \/ \E flags \in FlagSets : cork_file_remove(flags)
    \/ cork_file_iterate_directory
    \/ client_continue
    \/ mkdir_one_stat
    \/ mkdir_one_parent
    \/ mkdir_one_ret
    \/ mkdir_one_mkdir
    \/ remove_stat
    \/ remove_walked
    \/ remove_rmdir
    \/ remove_unlink
    \/ iterate_open
    \/ iterate_read
    \/ iterate_stat
    \/ iterate_visit
    \/ cork_file_remove_iterator
    \/ iterate_visited
    \/ iterate_check
    \/ iterate_error

Spec == Init /\ [][Next]_vars

(***************************************************************************)
(* Paths on their own                                                      *)
(***************************************************************************)
Chars == {"a", "b", SEP}

\* the strings of at most n characters
Strings(n) == UNION { [1..k -> Chars] : k \in 0..n }

\* a const char * argument: NULL or a string
Args ==
    {[null |-> TRUE, str |-> <<>>]}
    \cup { [null |-> FALSE, str |-> s] : s \in Strings(MaxMore) }

\* what getcwd(3) may answer: a working directory, or a failure
Getcwds ==
    { [ok |-> TRUE, cwd |-> c, errno |-> "0"] : c \in { <<SEP>>, <<SEP, "a">> } }
    \cup { [ok |-> FALSE, cwd |-> <<>>, errno |-> "ENOENT"] }

\* the File variables while only a Path or a ring buffer is used
FileIdle ==
    /\ fs = [n \in Nodes |-> "none"]
    /\ file = NoFile
    /\ stack = <<>>
    /\ errno = "0"
    /\ err = "none"
    /\ ret = 0
    /\ phase = "idle"
    /\ faults = 0
    /\ call = NoCall
    /\ prev = NoPrev
    /\ h = H0

PathInit ==
    /\ FileIdle
    /\ RingIdle
    /\ path = <<>>
    /\ pres = NoPres

\* the record of an operation that changed the contents in place
Changed(op, a, new) ==
    [NoPres EXCEPT !.op = op, !.old = path, !.arg = a.str, !.null = a.null,
                   !.out = new]

NoArg == [null |-> FALSE, str |-> <<>>]

\* path = cork_path_new(source)
path_new(a) ==
    /\ path' = cork_path_new(a.null, a.str)
    /\ pres' = [NoPres EXCEPT !.op = "new", !.arg = a.str, !.null = a.null,
                              !.out = path']
    /\ UNCHANGED <<filevars, ringvars>>

\* cork_path_append(path, more); a NULL more is left alone as an empty one is
path_append(a) ==
    /\ Len(path) + Len(a.str) + 1 <= MaxPathLen
    /\ path' = IF a.null THEN path ELSE cork_path_append(path, a.str)
    /\ pres' = Changed("append", a, path')
    /\ UNCHANGED <<filevars, ringvars>>

\* cork_path_join(path, more): the result is a new Path
path_join(a) ==
    /\ Len(path) + Len(a.str) + 1 <= MaxPathLen
    /\ pres' = [pres EXCEPT !.op = "join", !.old = path, !.arg = a.str,
                            !.null = a.null, !.rc = 0, !.err = "none",
                            !.out = IF a.null THEN path
                                    ELSE cork_path_join(path, a.str)]
    /\ UNCHANGED <<path, filevars, ringvars>>

\* cork_path_set_basename(path)
path_set_basename ==
    /\ path' = cork_path_set_basename(path)
    /\ pres' = Changed("set_basename", NoArg, path')
    /\ UNCHANGED <<filevars, ringvars>>

\* cork_path_set_dirname(path)
path_set_dirname ==
    /\ path' = cork_path_set_dirname(path)
    /\ pres' = Changed("set_dirname", NoArg, path')
    /\ UNCHANGED <<filevars, ringvars>>

\* cork_path_dirname(path): the result is a new Path
path_dirname ==
    /\ pres' = [pres EXCEPT !.op = "dirname", !.old = path, !.rc = 0,
                            !.err = "none", !.out = cork_path_dirname(path),
                            !.dir = [set |-> TRUE,
                                     path |-> cork_path_dirname(path)]]
    /\ UNCHANGED <<path, filevars, ringvars>>

\* cork_path_basename(path): the result is a new Path
path_basename ==
    /\ pres' = [pres EXCEPT !.op = "basename", !.old = path, !.rc = 0,
                            !.err = "none", !.out = cork_path_basename(path),
                            !.base = [set |-> TRUE,
                                      path |-> cork_path_basename(path)]]
    /\ UNCHANGED <<path, filevars, ringvars>>

\* cork_path_set_absolute(path)
path_set_absolute ==
    /\ TrailingSlash(path) \/ Len(path) <= MaxMore
    /\ \E g \in Getcwds :
         LET r == cork_path_set_absolute(path, g)
         IN  /\ path' = r.path
             /\ pres' = [NoPres EXCEPT !.op = "set_absolute", !.old = path,
                                       !.out = r.path, !.rc = r.rc,
                                       !.err = r.err, !.asked = r.asked,
                                       !.cwd = IF r.asked THEN g.cwd ELSE <<>>]
    /\ UNCHANGED <<filevars, ringvars>>

PathNext ==
    \/ \E a \in Args : path_new(a)
    \/ \E a \in Args : path_append(a)
    \/ \E a \in Args : path_join(a)
    \/ path_set_basename
    \/ path_set_dirname
    \/ path_dirname
    \/ path_basename
    \/ path_set_absolute

PathSpec == PathInit /\ [][PathNext]_vars

(***************************************************************************)
(* The ring buffer                                                         *)
(***************************************************************************)
\* the pointers a client stores; NULL is one of them
Elems == {"NULL", "x", "y"}

\* cork_ring_buffer_is_full(self), cork_ring_buffer_is_empty(self)
cork_ring_buffer_is_full(self) == self.size = self.allocated_size
cork_ring_buffer_is_empty(self) == self.size = 0

\* cork_ring_buffer_init(self, size) when calloc gives the array: the
\* elements, indexed from 0, are all NULL
cork_ring_buffer_init(size) ==
    [elements |-> [i \in 0..(size - 1) |-> "NULL"], allocated_size |-> size,
     size |-> 0, read_index |-> 0, write_index |-> 0]

\* an add that lets write_index run past the end of the array
cork_ring_buffer_add_no_wrap(self, element) ==
    IF cork_ring_buffer_is_full(self) THEN [self |-> self, rc |-> -1]
    ELSE [self |-> [self EXCEPT !.elements =
                        [i \in DOMAIN @ \cup {self.write_index} |->
                            IF i = self.write_index THEN element ELSE @[i]],
                                !.write_index = @ + 1,
                                !.size = @ + 1],
          rc |-> 0]

\* cork_ring_buffer_add(self, element): the buffer after it and the result
cork_ring_buffer_add(self, element) ==
    IF cork_ring_buffer_is_full(self) THEN [self |-> self, rc |-> -1]
    ELSE [self |-> [self EXCEPT !.elements[self.write_index] = element,
                                !.write_index =
                                    IF @ + 1 = self.allocated_size
                                    THEN 0 ELSE @ + 1,
                                !.size = @ + 1],
          rc |-> 0]

\* cork_ring_buffer_pop(self): the buffer after it and the pointer returned
cork_ring_buffer_pop(self) ==
    IF cork_ring_buffer_is_empty(self) THEN [self |-> self, out |-> "NULL"]
    ELSE [self |-> [self EXCEPT !.read_index =
                                    IF @ + 1 = self.allocated_size
                                    THEN 0 ELSE @ + 1,
                                !.size = @ - 1],
          out |-> self.elements[self.read_index]]

\* cork_ring_buffer_peek(self): the pointer returned
cork_ring_buffer_peek(self) ==
    IF cork_ring_buffer_is_empty(self) THEN "NULL"
    ELSE self.elements[self.read_index]

RingInit ==
    /\ FileIdle
    /\ PathIdle
    /\ RingIdle

RingDid(op, arg, rc, out) ==
    [op |-> op, arg |-> arg, rc |-> rc, out |-> out,
     ring0 |-> ring, fifo0 |-> fifo]

\* cork_ring_buffer_init on a buffer that is not in use; calloc may fail
ring_init(n) ==
    /\ ring = NoRing
    /\ \/ /\ ring' = cork_ring_buffer_init(n)
          /\ rres' = RingDid("init", "NULL", 0, "NULL")
       \/ /\ ring' = ring
          /\ rres' = RingDid("init", "NULL", -1, "NULL")
    /\ fifo' = <<>>
    /\ UNCHANGED <<filevars, pathvars>>

\* cork_ring_buffer_done: the array is freed, the buffer is out of use
ring_done ==
    /\ ring # NoRing
    /\ ring' = NoRing
    /\ fifo' = <<>>
    /\ rres' = RingDid("done", "NULL", 0, "NULL")
    /\ UNCHANGED <<filevars, pathvars>>

ring_add(e) ==
    /\ ring # NoRing
    /\ LET r == cork_ring_buffer_add(ring, e)
       IN  /\ ring' = r.self
           /\ fifo' = IF r.rc = 0 THEN Append(fifo, e) ELSE fifo
           /\ rres' = RingDid("add", e, r.rc, "NULL")
    /\ UNCHANGED <<filevars, pathvars>>

ring_pop ==
    /\ ring # NoRing
    /\ LET r == cork_ring_buffer_pop(ring)
       IN  /\ ring' = r.self
           /\ fifo' = IF fifo = <<>> THEN fifo ELSE Tail(fifo)
           /\ rres' = RingDid("pop", "NULL", 0, r.out)
    /\ UNCHANGED <<filevars, pathvars>>

ring_peek ==
    /\ ring # NoRing
    /\ rres' = RingDid("peek", "NULL", 0, cork_ring_buffer_peek(ring))
    /\ UNCHANGED <<ring, fifo>>
    /\ UNCHANGED <<filevars, pathvars>>

RingNext ==
    \/ \E n \in 1..MaxCap : ring_init(n)
    \/ ring_done
    \/ \E e \in Elems : ring_add(e)
    \/ ring_pop
    \/ ring_peek

RingSpec == RingInit /\ [][RingNext]_vars

(***************************************************************************)
(* Claims                                                                  *)
(***************************************************************************)
Done == phase = "done"

\* the nodes on the way from the root to n, n included
Prefixes(n) == { SubSeq(n, 1, k) : k \in 1..Len(n) }

\* C1: after a successful MkdirTree on a path, MkdirTree again on that
\* path, through the same File or any other File naming it, succeeds and
\* creates nothing when Permissive is set, and fails with EEXIST when it is
\* not.
C1_MkdirAgain ==
    (Done /\ call.op = "mkdir" /\ prev.op = "mkdir"
          /\ prev.path = call.file0.path /\ faults = 0)
    => IF PERMISSIVE \in call.flags
       THEN ret = 0 /\ fs = call.fs0
       ELSE ret = -1 /\ err = "EEXIST"

\* C2: after a successful RemoveTree on a path, RemoveTree again on that
\* path, through the same File or any other File naming it, fails with
\* ENOENT when Permissive is not set and succeeds, removing nothing, when
\* it is.
C2_RemoveAgain ==
    (Done /\ call.op = "remove" /\ prev.op = "remove"
          /\ prev.path = call.file0.path /\ faults = 0)
    => IF PERMISSIVE \in call.flags
       THEN ret = 0 /\ fs = call.fs0
       ELSE ret = -1 /\ err = "ENOENT"

\* the call began on a File whose cache was invalid
FreshFile == ~call.file0.has_stat

\* the target of the call and some of its ancestors are missing and the
\* entries above them are directories
LeafMissing ==
    /\ KindOf(call.fs0, call.target) = "none"
    /\ \A m \in Prefixes(call.target) :
           KindOf(call.fs0, m) \in {"none", "directory"}

\* C3: MkdirTree with Recursive on a path whose leaf and last N ancestors
\* are missing succeeds when no OS primitive fails; afterwards the leaf and
\* every ancestor are directories and no other entry was created or changed.
C3_MkdirTree ==
    (Done /\ call.op = "mkdir" /\ RECURSIVE_FLAG \in call.flags
          /\ FreshFile /\ LeafMissing /\ faults = 0)
    => /\ ret = 0
       /\ \A m \in Prefixes(call.target) : KindOf(fs, m) = "directory"
       /\ \A n \in Nodes \ Prefixes(call.target) : fs[n] = call.fs0[n]


\* the target is a directory whose tree holds regular files and directories
PlainTree ==
    /\ call.target \in Nodes
    /\ KindOf(call.fs0, call.target) = "directory"
    /\ \A n \in Subtree(call.target) :
         KindOf(call.fs0, n) \in {"none", "regular", "directory"}

\* the successful removals of the call, as positions of h.muts
Removed(n) ==
    { i \in 1..Len(h.muts) :
        h.muts[i].ok /\ h.muts[i].node = n /\ h.muts[i].op \in {"rmdir", "unlink"} }

\* C4: a recursive remove of a directory tree of regular files and
\* directories, when no OS primitive fails, returns 0 and leaves nothing of
\* the tree; each file was unlinked, each directory was removed with rmdir,
\* and a directory was removed only after every entry it held.
C4_RemoveTree ==
    (Done /\ call.op = "remove" /\ RECURSIVE_FLAG \in call.flags
          /\ PlainTree /\ faults = 0)
    => /\ ret = 0
       /\ \A n \in Subtree(call.target) : KindOf(fs, n) = "none"
       /\ \A n \in Subtree(call.target) :
            KindOf(call.fs0, n) # "none" =>
              /\ Cardinality(Removed(n)) = 1
              /\ \A i \in Removed(n) :
                   /\ h.muts[i].op = IF KindOf(call.fs0, n) = "directory"
                                     THEN "rmdir" ELSE "unlink"
                   /\ \A c \in Children(call.fs0, n) :
                        \A j \in Removed(c) : j < i


\* the entries of h.listed other than "." and ".."
ListedNames == SelectSeq(h.listed, LAMBDA n : ~iterate_skips(n))
VisitedNames == [i \in 1..Len(h.visits) |-> h.visits[i].name]

\* directory path d joined to name n by exactly one separator
JoinOne(d, n) == IF TrailingSlash(d) THEN d \o n ELSE d \o <<SEP>> \o n

\* C5: a client's Walk calls the visitor once for each listed entry other
\* than "." and "..", in listing order (for all of them when the walk
\* returns 0); each call gets the entry's name and a child File whose path is
\* the directory's path joined to the name by one separator and whose type
\* is that of the entry on disk.
C5_WalkVisits ==
    call.op = "walk" =>
      /\ Len(VisitedNames) <= Len(ListedNames)
      /\ VisitedNames = SubSeq(ListedNames, 1, Len(VisitedNames))
      /\ (Done /\ ret = 0) => VisitedNames = ListedNames
      /\ \A i \in 1..Len(h.visits) :
           /\ ~iterate_skips(h.visits[i].name)
           /\ h.visits[i].path = JoinOne(call.file0.path, h.visits[i].name)
           /\ h.visits[i].type = FileType(h.visits[i].kind)


\* C6: errno is 0 at every readdir call of the walker, whatever the stat of
\* the child or the visitor left in it and after a skipped "." or "..";
\* after the loop errno is non-zero exactly when readdir failed, a client's
\* Walk returns 0 only after it was given the whole listing, and a call in
\* which readdir failed returns -1 with the system error set.
C6_ErrnoAtRead ==
    /\ Running("iterate", "read") => errno = "0"
    /\ Running("iterate", "check") => (errno # "0" <=> Top.rd = "error")
    /\ (Done /\ call.op = "walk" /\ ret = 0) =>
         Len(h.listed) = Cardinality(Children(call.fs0, call.target)) + 2
    /\ (Done /\ h.rderr) => (ret = -1 /\ err = "EIO")

\* readdir is about to be called after the stat of a child that is missing
\* left ENOENT in errno and the visitor returned
C6_Witness ==
    /\ Running("iterate", "read")
    /\ Top.iter = "user"
    /\ Len(h.visits) > 0
    /\ h.visits[Len(h.visits)].type = "MISSING"
    /\ Top.rest # <<>>

\* the walker frames that hold directory handle i
Holders(i) ==
    { k \in 1..Len(stack) : stack[k].fn = "iterate" /\ stack[k].dir = i }

\* C7: every directory handle the walker opened is held by one walker frame
\* and neither closed nor its child File released while that frame runs, and
\* is closed once and its child File released once when the frame has
\* returned, at every depth; none is open after the top-level call returned.
C7_HandlesReleased ==
    /\ \A i \in 1..Len(h.handles) :
         IF Holders(i) # {}
         THEN /\ Cardinality(Holders(i)) = 1
              /\ h.handles[i].closed = 0
              /\ h.handles[i].freed = 0
         ELSE /\ h.handles[i].closed = 1
              /\ h.handles[i].freed = 1
    /\ \A k \in 1..Len(stack) :
         (stack[k].fn = "iterate" /\ stack[k].pc # "open")
           => stack[k].dir \in 1..Len(h.handles)
    /\ Done => \A i \in 1..Len(h.handles) : h.handles[i].closed = 1

\* a recursive remove opened two directories, readdir failed in the inner
\* one, and the call has returned
C7_Witness ==
    /\ Done /\ call.op = "remove"
    /\ Len(h.handles) = 2
    /\ h.rderr
    /\ h.muts # <<>>
    /\ ret = -1

\* C8: when an OS primitive failed during Walk, mkdir or remove (stat for a
\* reason other than not-found, opendir, readdir, closedir, mkdir, rmdir,
\* unlink), the call returns -1 and the error set is a system error with the
\* errno of such a failure, whatever the flags.
C8_OsFailureRecorded ==
    (Done /\ call.op \in {"walk", "mkdir", "remove"} /\ h.oserrs # {})
    => /\ ret = -1
       /\ err \in h.oserrs


C10_StatMissing ==
    (Done /\ call.op = "type") =>
      LET q == sys_stat(call.fs0, call.file0.path)
      IN  /\ prev.op = "type" => ~call.file0.has_stat
          /\ ~call.file0.has_stat =>
               /\ h.nstat = 1
               /\ (faults = 0 /\ q.rc = -1) =>
                    /\ q.errno \in {"ENOENT", "ENOTDIR"}
                    /\ ret = 0
                    /\ file = [call.file0 EXCEPT !.type = "MISSING",
                                                 !.has_stat = TRUE]
               /\ faults > 0 =>
                    /\ ret = -1
                    /\ err = "EIO"
                    /\ file = call.file0

\* the call after a failed classification queried again and found a parent
\* that is not a directory: the type is MISSING
C10_Witness ==
    /\ Done /\ call.op = "type" /\ prev.op = "type"
    /\ ~call.file0.has_stat
    /\ h.nstat = 1
    /\ errno = "ENOTDIR"
    /\ ret = 0
    /\ file.type = "MISSING"


\* C11: mkdir on a target that exists changes nothing on the filesystem; on
\* a directory it returns 0 with Permissive and fails with EEXIST without;
\* on an entry that is not a directory it fails with EEXIST whatever the
\* flags.
C11_MkdirExisting ==
    (Done /\ call.op = "mkdir" /\ faults = 0
          /\ KindOf(call.fs0, call.target) # "none")
    => /\ fs = call.fs0
       /\ IF KindOf(call.fs0, call.target) = "directory"
             /\ PERMISSIVE \in call.flags
          THEN ret = 0
          ELSE ret = -1 /\ err = "EEXIST"


\* the call was a remove whose File is classified MISSING
RemoveOfMissing ==
    (Done /\ call.op = "remove" /\ file.has_stat /\ file.type = "MISSING")
    => /\ fs = call.fs0
       /\ h.muts = <<>>
       /\ IF PERMISSIVE \in call.flags
          THEN ret = 0
          ELSE ret = -1 /\ err = "ENOENT"

\* a step of cork_file_remove on a child of the walk that classifies the
\* child MISSING
RemoveOfMissingChild ==
    (Running("remove", "stat") /\ Top.fref = "local") =>
      LET k == Len(stack) - 1
          c == stack'[k].loc
      IN  (c.has_stat /\ c.type = "MISSING") =>
            /\ Len(stack') = k
            /\ fs' = fs
            /\ h'.muts = h.muts
            /\ Top.flags = call.flags
            /\ IF PERMISSIVE \in call.flags
               THEN ret' = 0 /\ err' = err
               ELSE ret' = -1 /\ err' = "ENOENT"

\* C12: a remove whose target is classified MISSING changes nothing on the
\* filesystem, returns 0 with Permissive and fails with ENOENT without; a
\* child met by a recursive remove is treated the same way, with the flags of
\* the top-level call.
C12_RemoveMissing == []RemoveOfMissing /\ [][RemoveOfMissingChild]_vars

\* a recursive, permissive remove met a child classified MISSING and went on
C12_Witness ==
    /\ Running("iterate", "visited")
    /\ Top.iter = "remove"
    /\ PERMISSIVE \in call.flags
    /\ Top.loc.has_stat /\ Top.loc.type = "MISSING"
    /\ ret = 0


Range(s) == { s[i] : i \in 1..Len(s) }

\* C13: cork_path_append and cork_path_join: a NULL or empty more leaves the
\* contents as they were; a more that begins with a separator becomes the
\* whole result; any other more follows the old contents, after one
\* separator that is added only when the old contents are not empty and do
\* not end in one; append changes the Path in place, join leaves it alone.
C13_Append ==
    pres.op \in {"append", "join"} =>
      LET old  == pres.old
          more == pres.arg
          res  == pres.out
          n    == Len(res) - Len(more)
      IN  /\ path = IF pres.op = "append" THEN res ELSE old
          /\ (pres.null \/ more = <<>>) => res = old
          /\ (~pres.null /\ more # <<>>) =>
               IF more[1] = SEP THEN res = more
               ELSE IF old = <<>> THEN res = more
               ELSE /\ n = Len(old) + (IF old[Len(old)] = SEP THEN 0 ELSE 1)
                    /\ SubSeq(res, 1, Len(old)) = old
                    /\ res[n] = SEP
                    /\ SubSeq(res, n + 1, Len(res)) = more

\* a name was appended to contents that did not end in a separator
C13_Witness ==
    /\ pres.op = "append"
    /\ pres.old # <<>> /\ pres.old[Len(pres.old)] # SEP
    /\ ~pres.null /\ pres.arg # <<>> /\ pres.arg[1] # SEP
    /\ Len(path) = Len(pres.old) + 1 + Len(pres.arg)

\* C14: for contents with a separator, the result of cork_path_dirname, one
\* separator and the result of cork_path_basename make up the contents, and
\* the basename holds no separator; for contents without a separator,
\* cork_path_set_basename leaves them as they are and cork_path_set_dirname
\* leaves the empty path.
C14_Split ==
    /\ (pres.dir.set /\ pres.base.set /\ SEP \in Range(path)) =>
         /\ pres.dir.path \o <<SEP>> \o pres.base.path = path
         /\ SEP \notin Range(pres.base.path)
    /\ (pres.op = "set_basename" /\ SEP \notin Range(pres.old)) =>
         path = pres.old
    /\ (pres.op = "set_dirname" /\ SEP \notin Range(pres.old)) =>
         path = <<>>

\* the dirname and the basename of contents with two separators were taken
C14_Witness ==
    /\ pres.dir.set /\ pres.base.set
    /\ Len(path) = 4
    /\ path[2] = SEP /\ path[3] = SEP
    /\ pres.base.path # <<>>

\* C15: cork_path_set_absolute on contents that end in a separator returns 0,
\* leaves them as they are and does not call getcwd; on other contents, the
\* empty ones included, it calls getcwd and leaves cwd, a separator and the
\* old contents when getcwd succeeds, and returns -1 with the system error
\* and the old contents when getcwd fails.
C15_SetAbsolute ==
    pres.op = "set_absolute" =>
      IF TrailingSlash(pres.old)
      THEN pres.rc = 0 /\ path = pres.old /\ ~pres.asked
      ELSE /\ pres.asked
           /\ IF pres.cwd # <<>>
              THEN pres.rc = 0 /\ path = pres.cwd \o <<SEP>> \o pres.old
              ELSE pres.rc = -1 /\ pres.err = "ENOENT" /\ path = pres.old

\* getcwd failed for contents that are not empty
C15_Witness ==
    /\ pres.op = "set_absolute"
    /\ pres.asked /\ pres.rc = -1
    /\ pres.old # <<>>
    /\ path = pres.old


\* C16: cork_file_type or cork_file_exists on a File whose classification
\* is cached issues no stat(2), succeeds, leaves the File as it was and
\* reports the cached type, whatever the tree holds now; cork_file_exists
\* reports true exactly when the cached type is not MISSING
C16_CacheReused ==
    (Done /\ call.op \in {"type", "exists"} /\ call.file0.has_stat)
    => /\ h.nstat = 0
       /\ ret = 0
       /\ file = call.file0
       /\ h.out = IF call.op = "type" THEN call.file0.type
                  ELSE ExistsOut(call.file0.type)
       /\ (call.op = "exists") =>
            (h.out = "true" <=> call.file0.type # "MISSING")

\* the cached answer is given although the tree says otherwise
C16_Witness ==
    /\ Done
    /\ call.op = "exists"
    /\ call.file0.has_stat
    /\ call.file0.type = "MISSING"
    /\ KindOf(fs, call.target) = "directory"
    /\ h.out = "false"
    /\ h.nstat = 0


\* what a stat(2) of path p in tree t classifies as
Classified(t, p) ==
    LET q == sys_stat(t, p)
    IN  IF q.rc = -1 THEN "MISSING" ELSE FileType(q.kind)

\* the iterator is about to be called: the child File holds the directory's
\* path with this entry's name appended, and its classification is that of
\* the one stat(2) issued on that path since the entry was read
ChildFreshAtVisit ==
    Running("iterate", "visit")
    => /\ Top.loc.path = JoinOne(TopFile.path, Top.entry)
       /\ Top.loc.has_stat
       /\ h.nstat = Top.q + 1
       /\ Top.loc.type = Classified(fs, Top.loc.path)

\* the next entry is about to be read: the child File holds the directory's
\* path again and no classification
ChildResetAtRead ==
    Running("iterate", "read")
    => /\ Top.loc.path = TopFile.path
       /\ Len(Top.loc.path) = Top.size
       /\ ~Top.loc.has_stat

\* C17: in cork_file_iterate_directory the child File is never stale: at
\* each call of the iterator its classification comes from a stat(2) issued
\* in that pass on its present path, and before each readdir its path is the
\* directory's again with has_stat clear
C17_ChildFresh == ChildFreshAtVisit /\ ChildResetAtRead

\* a second entry is handed to the visitor with a classification other
\* than the one the entry before it had
C17_Witness ==
    /\ Running("iterate", "visit")
    /\ Top.iter = "user"
    /\ h.visits # <<>>
    /\ h.visits[Len(h.visits)].type # Top.loc.type
    /\ h.visits[Len(h.visits)].name # Top.entry
    /\ Top.loc.has_stat


\* the successful mkdir(2) calls of the call, as the nodes they created
Created == { h.muts[i].node : i \in { j \in 1..Len(h.muts) :
                                        h.muts[j].ok /\ h.muts[j].op = "mkdir" } }

\* C18: cork_file_mkdir with Recursive on a missing leaf whose existing
\* ancestors are directories succeeds when no OS primitive fails, with or
\* without Permissive: exactly the missing levels are created and nothing
\* else changes; on a leaf that exists and is not a directory it fails with
\* EEXIST with or without Permissive
C18_AncestorsPermissive ==
    (Done /\ call.op = "mkdir" /\ RECURSIVE_FLAG \in call.flags /\ faults = 0)
    => /\ LeafMissing =>
            /\ ret = 0
            /\ Created = { m \in Prefixes(call.target) :
                             KindOf(call.fs0, m) = "none" }
            /\ \A m \in Prefixes(call.target) : KindOf(fs, m) = "directory"
            /\ \A n \in Nodes \ Prefixes(call.target) : fs[n] = call.fs0[n]
       /\ KindOf(call.fs0, call.target) \notin {"none", "directory"} =>
            /\ ret = -1
            /\ err = "EEXIST"
            /\ fs = call.fs0


\* path p is base, or base extended by separator-joined entry names
Within(p, base) ==
    \/ p = base
    \/ /\ Len(p) > Len(base)
       /\ SubSeq(p, 1, Len(base)) = base
       /\ TrailingSlash(base) \/ p[Len(base) + 1] = SEP
       /\ ~TrailingSlash(p)
       /\ \A i \in (Len(base) + 1)..(Len(p) - 1) :
            ~(p[i] = SEP /\ p[i + 1] = SEP)

\* C19: cork_file_remove hands to unlink(2) and rmdir(2) only the path of
\* its File or that path extended by entry names; without Recursive it
\* issues at most one such call, on the File's own path; when it returns
\* the File's path is as it was, and no entry outside the subtree of the
\* target has changed
C19_RemoveInside ==
    (call.op = "remove" /\ phase \in {"run", "done"})
    => /\ \A i \in 1..Len(h.muts) :
            /\ h.muts[i].op \in {"unlink", "rmdir"}
            /\ Within(h.muts[i].path, call.file0.path)
       /\ RECURSIVE_FLAG \notin call.flags =>
            /\ Len(h.muts) <= 1
            /\ \A i \in 1..Len(h.muts) : h.muts[i].path = call.file0.path
       /\ Done => file.path = call.file0.path
       /\ \A n \in Nodes \ Subtree(call.target) : fs[n] = call.fs0[n]


\* the element at position i of the queue the buffer holds, oldest first
RingAt(i) == ring.elements[(ring.read_index + i - 1) % ring.allocated_size]

\* the buffer holds the queue: the size and the indexes agree and the
\* elements from read_index on, around the end of the array, are the
\* elements added and not yet popped, in the order they were added
RingHoldsFifo ==
    ring # NoRing
    => /\ 0 <= ring.size /\ ring.size <= ring.allocated_size
       /\ ring.write_index =
            (ring.read_index + ring.size) % ring.allocated_size
       /\ Len(fifo) = ring.size
       /\ \A i \in 1..Len(fifo) : RingAt(i) = fifo[i]

\* what the operation that ran last returned and did, told by the queue
\* before it
RingAnswers ==
    LET full  == Len(rres.fifo0) = rres.ring0.allocated_size
        empty == rres.fifo0 = <<>>
    IN  /\ rres.op = "add" =>
              IF full THEN rres.rc = -1 /\ ring = rres.ring0
                           /\ fifo = rres.fifo0
              ELSE rres.rc = 0 /\ fifo = Append(rres.fifo0, rres.arg)
        /\ rres.op = "pop" =>
              IF empty THEN rres.out = "NULL" /\ ring = rres.ring0
                            /\ fifo = rres.fifo0
              ELSE rres.out = Head(rres.fifo0) /\ fifo = Tail(rres.fifo0)
        /\ rres.op = "peek" =>
              /\ ring = rres.ring0
              /\ fifo = rres.fifo0
              /\ rres.out = IF empty THEN "NULL" ELSE Head(rres.fifo0)

\* C20: the ring buffer is a FIFO queue of at most allocated_size elements:
\* add on a full buffer returns -1 and changes nothing, pop and peek on an
\* empty buffer return NULL and change nothing, pop returns the elements in
\* the order they were added, 0 <= size <= allocated_size and
\* write_index = (read_index + size) mod allocated_size
C20_RingFifo == RingHoldsFifo /\ RingAnswers

\* a pop returns the oldest of several elements from a buffer whose
\* contents run around the end of the array
C20_Witness ==
    /\ rres.op = "pop"
    /\ Len(rres.fifo0) >= 2
    /\ rres.ring0.write_index <= rres.ring0.read_index
    /\ rres.ring0.read_index > 0
    /\ rres.out = Head(rres.fifo0)
    /\ rres.out # rres.fifo0[2]

====
